---- MODULE Spec2Model ----
(***************************************************************************)
(* Model of the gdrive-sync pipeline:                                      *)
(*   - the notification ingestion endpoint (webhook_listener/webhook_app)  *)
(*   - the change poller (scheduler/auto_sync) and its cursor persistence  *)
(*     (shared/state_manager plus the local fallback file)                 *)
(*   - the sync worker's consumption of queued events (s3_uploader)        *)
(* Time is a logical clock: every action that stamps something with the    *)
(* current time (a document modification, the poller's cursor advance)     *)
(* moves the clock to a fresh instant, so two stamped instants never tie.  *)
(***************************************************************************)
EXTENDS Integers, Sequences, FiniteSets, TLC

\* ---------------------------------------------------------------- bounds
MaxTime == 5
MaxQueue == 1
\* longest file name given to sanitize_filename
MaxLen == 4
\* most deliveries made to the worker's callback
MaxRuns == 2

\* ------------------------------------------------------------- constants
\* the warm-up window of the default cursor (10 minutes), in clock ticks
WarmupTicks == 2

Docs == {"d1", "d2"}

\* a header that the request does not carry / a value that is not there
ABSENT == "<absent>"
None == -101
NoVal == -102
Absent == -103

\* config.WEBHOOK_VERIFICATION_TOKEN
WEBHOOK_VERIFICATION_TOKEN == "secure_webhook_token_2025"
\* config.ALLOWED_IPS
ALLOWED_IPS == {"127.0.0.1", "::1"}
\* the poller posts to config.WEBHOOK_URL (localhost)
PollerIP == "127.0.0.1"

\* inputs of the ingestion endpoint
ClientIPs == {"127.0.0.1", "10.0.0.9"}
Tokens == {WEBHOOK_VERIFICATION_TOKEN, "wrong", ABSENT}
ChannelIds == {"ch1", ABSENT}
ResourceStates == {"sync", "bogus", ABSENT}

\* a request without a JSON body
NoBody == [files_found |-> 0, file_details |-> <<>>]

Requests == [client_ip : ClientIPs, token : Tokens, channel : ChannelIds,
             state : ResourceStates, auto_sync : {FALSE}, body : {NoBody}]

VARIABLES
  now,             \* logical clock
  modifiedTime,    \* watched folder: Docs -> modification time, or Absent
  brokerUp,        \* the queue broker is reachable
  connection,      \* rabbitmq_manager.connection: "open", "closed", "stale"
  queue,           \* webhook_queue: sequence of published messages
  reqBit,          \* flips on every request handled by /webhook
  lastReq,         \* the request handled last
  lastResp,        \* its response
  publishCalls,    \* basic_publish calls made for it
  connectCalls,    \* _connect calls made for it
  redisUp,         \* the remote store is reachable
  redisVal,        \* remote store: value of last_sync_time, or NoVal
  fileVal,         \* local state file: last_sync_time, or NoVal
  pc,              \* poller: "down", "idle", "found", "published"
  state_manager,   \* poller: TRUE when StateManager() connected at startup
  last_sync_time,  \* poller: self.last_sync_time
  modified_files,  \* poller: result of the cycle's query
  cycleBit,        \* flips when a poll cycle begins
  cycleStart,      \* cursor values when the running/last cycle began
  cycleResult,     \* "none", "running", "no_changes", "publish_failed", "advanced"
  triggerFailed,   \* the cycle's POST got a non-200 response or no response
  listedVersion,   \* worker: Docs -> modification time seen by the latest listing
  uploadedVersion, \* worker: Docs -> modification time of the latest upload
  filename,        \* sanitize_filename: the argument
  safe_name,       \* sanitize_filename: the result
  spc,             \* sanitize_filename: "ready", "done"
  s3Up,            \* object storage answers requests
  s3,              \* object storage: the objects of the bucket
  event_puts,      \* put_object calls that succeeded for the event, per prefix
  replaced,        \* documents an upload of which replaced an earlier upload of them
  wpc,             \* worker: "stopped", "waiting", "syncing"
  delivery,        \* worker: the delivered, not yet acknowledged message
  files,           \* process_message: the folder listing of the event
  next_file,       \* process_message: position of the for loop in files
  success_count,   \* process_message: files synced
  fail_count,      \* files of the event whose content was not stored
  runs,            \* deliveries made to process_message
  acks,            \* basic_ack calls made
  nacks,           \* basic_nack calls made
  migration,       \* migrate_state.py: bit flips on every run; what the run
                   \* returned; the value in the backup file
  shutdown_handler,  \* the GracefulShutdownHandler of a process
  startup_optimizer  \* the StartupOptimizer of a process

webhookVars == <<brokerUp, connection, queue, reqBit, lastReq, lastResp, publishCalls,
                 connectCalls>>
storeVars == <<redisUp, redisVal, fileVal>>
pollerVars == <<pc, state_manager, last_sync_time, modified_files, cycleBit,
                cycleStart, cycleResult, triggerFailed>>
sanVars == <<filename, safe_name, spc>>
jobVars == <<s3Up, s3, event_puts, replaced, wpc, delivery, files, next_file,
             success_count, fail_count, runs, acks, nacks>>
workerVars == <<listedVersion, uploadedVersion, sanVars, jobVars>>
adminVars == <<migration, shutdown_handler, startup_optimizer>>
vars == <<now, modifiedTime, webhookVars, storeVars, pollerVars, workerVars, adminVars>>

NoReq == [client_ip |-> ABSENT, token |-> ABSENT, channel |-> ABSENT,
          state |-> ABSENT, auto_sync |-> FALSE, body |-> NoBody]
NoResp == [status |-> 0, event_id |-> ABSENT, timestamp |-> None]

NoPuts == [files |-> 0, metadata |-> 0, markers |-> 0]

NoMsg == [event_id |-> ABSENT, event_type |-> "<none>", resource_state |-> ABSENT,
          timestamp |-> None, auto_sync |-> FALSE]

\* S3Worker.__init__: nothing delivered, nothing stored
WorkerInit ==
  /\ s3Up = TRUE
  /\ s3 = {}
  /\ event_puts = NoPuts
  /\ replaced = {}
  /\ wpc = "stopped"
  /\ delivery = NoMsg
  /\ files = <<>>
  /\ next_file = 1
  /\ success_count = 0
  /\ fail_count = 0
  /\ runs = 0
  /\ acks = 0
  /\ nacks = 0

\* migrate_state.py has not run
NoMigration == [bit |-> 0, returned |-> "none", backup |-> NoVal]

\* GracefulShutdownHandler.__init__ (lines 13-23); signals counts the calls of
\* _signal_handler; position, in_callback, started and raised follow the for
\* loop of _execute_shutdown_callbacks
NoShutdown ==
  [shutdown_callbacks |-> <<>>, is_shutting_down |-> FALSE, signals |-> 0,
   start_time |-> None, position |-> 1, in_callback |-> FALSE, started |-> <<>>,
   raised |-> {}, exit_status |-> None]

\* StartupOptimizer.__init__ (lines 13-16); phase, position, started, running,
\* failed and returned follow run_startup_sequence
NoStartup ==
  [startup_tasks |-> <<>>, phase |-> "registering", position |-> 1,
   started |-> <<>>, running |-> {}, failed |-> {}, returned |-> "none"]

AdminInit ==
  /\ migration = NoMigration
  /\ shutdown_handler = NoShutdown
  /\ startup_optimizer = NoStartup

NoCycle == [at |-> None, working |-> None, redis |-> NoVal, file |-> NoVal]

Init ==
  /\ now = WarmupTicks
  /\ modifiedTime = [d \in Docs |-> Absent]
  /\ brokerUp = TRUE
  /\ connection = "open"
  /\ queue = <<>>
  /\ reqBit = 0
  /\ lastReq = NoReq
  /\ lastResp = NoResp
  /\ publishCalls = 0
  /\ connectCalls = 0
  /\ redisUp = TRUE
  /\ redisVal = NoVal
  /\ fileVal = NoVal
  /\ pc = "down"
  /\ state_manager = FALSE
  /\ last_sync_time = None
  /\ modified_files = {}
  /\ cycleBit = 0
  /\ cycleStart = NoCycle
  /\ cycleResult = "none"
  /\ triggerFailed = FALSE
  /\ listedVersion = [d \in Docs |-> Absent]
  /\ uploadedVersion = [d \in Docs |-> Absent]
  /\ filename = <<>>
  /\ safe_name = <<>>
  /\ spc = "ready"
  /\ WorkerInit
  /\ AdminInit

\* the listing in the order of the query: modifiedTime desc
RECURSIVE ListingSeq(_)
ListingSeq(S) ==
  IF S = {} THEN <<>>
  ELSE LET d == CHOOSE x \in S : \A y \in S : modifiedTime[x] >= modifiedTime[y]
       IN  <<d>> \o ListingSeq(S \ {d})

\* ------------------------------------------------- ingestion endpoint
validate_ip(client_ip) == client_ip \in ALLOWED_IPS

valid_states == {"sync", "update", "exists", "not_exists", "trash", "untrash"}

\* validate_headers without the token comparison of lines 60-62
validate_headers_notoken(req) ==
  IF req.channel = ABSENT \/ req.state = ABSENT THEN FALSE
  ELSE IF req.state \notin valid_states THEN FALSE
  ELSE TRUE

\* validate_headers whose required-header loop checks the resource state only
validate_headers_nochannel(req) ==
  IF req.token # WEBHOOK_VERIFICATION_TOKEN THEN FALSE
  ELSE IF req.state = ABSENT THEN FALSE
  ELSE IF req.state \notin valid_states THEN FALSE
  ELSE TRUE

validate_headers(req) ==
  IF req.token # WEBHOOK_VERIFICATION_TOKEN THEN FALSE
  ELSE IF req.channel = ABSENT \/ req.state = ABSENT THEN FALSE
  ELSE IF req.state \notin valid_states THEN FALSE
  ELSE TRUE

\* the message built by webhook() at lines 163-171
Message(req) ==
  [event_id |-> req.channel, event_type |-> "webhook_received",
   resource_state |-> req.state, timestamp |-> now, auto_sync |-> req.auto_sync]

\* publish_message without the reconnect of lines 112-113
PublishOk_noreconnect == brokerUp /\ connection = "open"

\* RabbitMQManager.publish_message: TRUE when basic_publish returned normally
PublishOk == brokerUp /\ connection # "stale"

\* a failed publish or reconnect that leaves the lost connection in place
connection_after_failure_keepstale == connection

\* the connection after publish_message caught an exception (lines 127-129):
\* pika has closed it, so is_closed holds at the next use (line 112)
connection_after_failure == "closed"

publish_message(msg) ==
  /\ connectCalls' = IF connection = "closed" THEN 1 ELSE 0
  /\ publishCalls' = IF connection = "closed" /\ ~brokerUp THEN 0 ELSE 1
  /\ IF PublishOk
       THEN /\ queue' = Append(queue, msg)
            /\ connection' = "open"
       ELSE /\ queue' = queue
            /\ connection' = connection_after_failure

\* webhook() ignoring the result of publish_message
publish_response_always200(message, ok) ==
  [status |-> 200, event_id |-> message.event_id, timestamp |-> message.timestamp]

\* the response of webhook() to the result of publish_message (lines 174-183)
publish_response(message, ok) ==
  IF ok THEN [status |-> 200, event_id |-> message.event_id,
              timestamp |-> message.timestamp]
        ELSE [NoResp EXCEPT !.status = 500]

\* an origin check that lets requests with invalid headers through
require_valid_ip_afterheaders(req) == validate_ip(req.client_ip) \/ ~validate_headers(req)

\* the decorator's check, made before the body of webhook() runs (lines 138-142)
require_valid_ip(req) == validate_ip(req.client_ip)

\* require_valid_ip + webhook(): the whole handling of one POST /webhook
webhook(req) ==
  /\ reqBit' = 1 - reqBit
  /\ lastReq' = req
  /\ brokerUp' = brokerUp
  /\ IF ~require_valid_ip(req)
       THEN /\ lastResp' = [NoResp EXCEPT !.status = 403]
            /\ UNCHANGED <<queue, connection>>
            /\ publishCalls' = 0
            /\ connectCalls' = 0
     ELSE IF ~validate_headers(req)
       THEN /\ lastResp' = [NoResp EXCEPT !.status = 400]
            /\ UNCHANGED <<queue, connection>>
            /\ publishCalls' = 0
            /\ connectCalls' = 0
     ELSE /\ publish_message(Message(req))
          /\ lastResp' = publish_response(Message(req), PublishOk)

\* (the queue is bounded: a request that would publish waits for room)
WebhookRequest(req) ==
  /\ (validate_ip(req.client_ip) /\ validate_headers(req)) => Len(queue) < MaxQueue
  /\ webhook(req)
  /\ UNCHANGED <<adminVars, now, modifiedTime, storeVars, pollerVars, workerVars>>

\* the broker goes away: an open connection becomes stale (the client has not
\* noticed yet), the next use raises and marks it closed
BrokerFail ==
  /\ brokerUp
  /\ brokerUp' = FALSE
  /\ connection' = IF connection = "open" THEN "stale" ELSE connection
  /\ UNCHANGED <<adminVars, now, modifiedTime, queue, reqBit, lastReq, lastResp, publishCalls, connectCalls,
                 storeVars, pollerVars, workerVars>>

BrokerRecover ==
  /\ ~brokerUp
  /\ brokerUp' = TRUE
  /\ UNCHANGED <<adminVars, now, modifiedTime, connection, queue, reqBit, lastReq, lastResp,
                 publishCalls, connectCalls, storeVars, pollerVars, workerVars>>

\* ------------------------------------------------------- cursor store
\* StateManager.get_last_sync_time: the stored value, or None. With no stored
\* value the default is computed as datetime.utcnow() - datetime.timedelta(...)
\* where datetime is the class imported at line 4: the attribute lookup raises
\* and the handler at lines 40-42 returns None.
get_last_sync_time ==
  IF ~redisUp THEN None
  ELSE IF redisVal # NoVal THEN redisVal
  ELSE None

\* StateManager.set_last_sync_time: TRUE when the remote write succeeded
set_last_sync_time_ok == redisUp

\* AutoSyncScheduler.load_last_sync_time, for a poller whose state_manager is sm
load_last_sync_time(sm) ==
  LET sync_time == IF sm THEN get_last_sync_time ELSE None
  IN  IF sync_time # None THEN sync_time
      ELSE IF fileVal # NoVal THEN fileVal
      ELSE now - WarmupTicks

\* load_last_sync_time without the migration of lines 80-82
redis_after_load_nomigrate(sm) == redisVal

\* the remote store after load_last_sync_time (the migration at lines 80-82)
redis_after_load(sm) ==
  LET sync_time == IF sm THEN get_last_sync_time ELSE None
  IN  IF sync_time = None /\ fileVal # NoVal /\ sm /\ set_last_sync_time_ok
        THEN fileVal
        ELSE redisVal

\* save_last_sync_time without the file fallback of lines 101-111
save_last_sync_time_nofile(sync_time, fileOk) ==
  /\ redisVal' = IF state_manager /\ set_last_sync_time_ok THEN sync_time ELSE redisVal
  /\ fileVal' = fileVal

\* AutoSyncScheduler.save_last_sync_time; fileOk: the file write succeeds
save_last_sync_time(sync_time, fileOk) ==
  IF state_manager /\ set_last_sync_time_ok
    THEN /\ redisVal' = sync_time
         /\ fileVal' = fileVal
    ELSE /\ redisVal' = redisVal
         /\ fileVal' = IF fileOk THEN sync_time ELSE fileVal

RedisFail ==
  /\ redisUp
  /\ redisUp' = FALSE
  /\ UNCHANGED <<adminVars, now, modifiedTime, webhookVars, redisVal, fileVal, pollerVars, workerVars>>

RedisRecover ==
  /\ ~redisUp
  /\ redisUp' = TRUE
  /\ UNCHANGED <<adminVars, now, modifiedTime, webhookVars, redisVal, fileVal, pollerVars, workerVars>>

\* -------------------------------------------------------- change poller
\* AutoSyncScheduler.__init__: connect the state manager, load the cursor
PollerStart ==
  /\ pc = "down"
  /\ state_manager' = redisUp
  /\ last_sync_time' = load_last_sync_time(redisUp)
  /\ redisVal' = redis_after_load(redisUp)
  /\ pc' = "idle"
  /\ UNCHANGED <<adminVars, now, modifiedTime, webhookVars, redisUp, fileVal, modified_files,
                 cycleBit, cycleStart, cycleResult, triggerFailed, workerVars>>

\* the poller process ends (stopped or killed) at any point; what it held in
\* memory is gone
PollerStop ==
  /\ pc # "down"
  /\ pc' = "down"
  /\ state_manager' = FALSE
  /\ last_sync_time' = None
  /\ modified_files' = {}
  /\ cycleStart' = NoCycle
  /\ cycleResult' = "none"
  /\ triggerFailed' = FALSE
  /\ UNCHANGED <<adminVars, now, modifiedTime, webhookVars, storeVars, cycleBit, workerVars>>

\* get_files_modified_after returning what it had collected when the query raised
get_files_modified_after_partial(after_time, err) ==
  {d \in Docs : /\ modifiedTime[d] # Absent /\ modifiedTime[d] > after_time
                /\ (err => d = "d1")}

\* AutoSyncScheduler.get_files_modified_after; err: the provider query raises
get_files_modified_after(after_time, err) ==
  IF err THEN {}
  ELSE {d \in Docs : modifiedTime[d] # Absent /\ modifiedTime[d] > after_time}

\* check_for_changes with the cursor update moved out of the found-files branch
CheckForChanges_touch(err) ==
  /\ pc = "idle"
  /\ cycleBit' = 1 - cycleBit
  /\ cycleStart' = [at |-> now, working |-> last_sync_time, redis |-> redisVal,
                    file |-> fileVal]
  /\ triggerFailed' = FALSE
  /\ modified_files' = get_files_modified_after(last_sync_time, err)
  /\ IF modified_files' = {}
       THEN /\ pc' = "idle"
            /\ cycleResult' = "no_changes"
            /\ last_sync_time' = now
       ELSE /\ pc' = "found"
            /\ cycleResult' = "running"
            /\ last_sync_time' = last_sync_time
  /\ UNCHANGED <<adminVars, now, modifiedTime, webhookVars, storeVars, state_manager,
                 workerVars>>

\* check_for_changes, up to the test of modified_files at line 191
CheckForChanges(err) ==
  /\ pc = "idle"
  /\ cycleBit' = 1 - cycleBit
  /\ cycleStart' = [at |-> now, working |-> last_sync_time, redis |-> redisVal,
                    file |-> fileVal]
  /\ triggerFailed' = FALSE
  /\ modified_files' = get_files_modified_after(last_sync_time, err)
  /\ IF modified_files' = {}
       THEN /\ pc' = "idle"
            /\ cycleResult' = "no_changes"
       ELSE /\ pc' = "found"
            /\ cycleResult' = "running"
  /\ UNCHANGED <<adminVars, now, modifiedTime, webhookVars, storeVars, state_manager,
                 last_sync_time, workerVars>>

\* the number of files trigger_webhook describes in its payload (line 150)
PreviewSize == 5

\* the payload built by trigger_webhook at lines 139-152
trigger_payload(files_info) ==
  LET listing == ListingSeq(files_info)
  IN  [files_found |-> Len(listing),
       file_details |-> SubSeq(listing, 1,
                               IF Len(listing) < PreviewSize THEN Len(listing)
                                                             ELSE PreviewSize)]

\* the request built by trigger_webhook at lines 155-170
PollerRequest ==
  [client_ip |-> PollerIP, token |-> WEBHOOK_VERIFICATION_TOKEN,
   channel |-> "auto-sync", state |-> "update", auto_sync |-> TRUE,
   body |-> trigger_payload(modified_files)]

\* trigger_webhook that does not look at the status code of the response
trigger_ok_anyresponse(status, lost) == ~lost

\* the result of trigger_webhook (lines 172-181): True only for a 200 response
trigger_ok(status, lost) == status = 200 /\ ~lost

\* trigger_webhook: POST to the ingestion endpoint; lost: the response does not
\* arrive (timeout or connection error at lines 179-181)
TriggerWebhook(lost) ==
  /\ pc = "found"
  /\ Len(queue) < MaxQueue
  /\ webhook(PollerRequest)
  /\ triggerFailed' = (lastResp'.status # 200 \/ lost)
  /\ IF trigger_ok(lastResp'.status, lost)
       THEN /\ pc' = "published"
            /\ cycleResult' = "running"
       ELSE /\ pc' = "idle"
            /\ cycleResult' = "publish_failed"
  /\ UNCHANGED <<adminVars, now, modifiedTime, storeVars, state_manager, last_sync_time,
                 modified_files, cycleBit, cycleStart, workerVars>>

\* the time taken with datetime.now() in a zone behind UTC instead of utcnow()
CurrentTime_local == now + 1 - 5

\* the time check_for_changes takes at line 201
CurrentTime == now + 1

\* check_for_changes lines 201-204: take the time, save it, keep it
AdvanceCursor(fileOk) ==
  /\ pc = "published"
  /\ now < MaxTime
  /\ now' = now + 1
  /\ save_last_sync_time(CurrentTime, fileOk)
  /\ last_sync_time' = CurrentTime
  /\ pc' = "idle"
  /\ cycleResult' = "advanced"
  /\ UNCHANGED <<adminVars, modifiedTime, webhookVars, redisUp, state_manager, modified_files,
                 cycleBit, cycleStart, triggerFailed, workerVars>>

\* main() with --reset (lines 282-310): a scheduler object is constructed in a
\* process of its own (connecting the state manager and loading the cursor,
\* with the migration of lines 80-82) and reset_state (lines 240-245) saves
\* the current time through it; the memory of a running poller is not touched
ResetState(fileOk) ==
  /\ now < MaxTime
  /\ now' = now + 1
  /\ IF redisUp /\ set_last_sync_time_ok
       THEN /\ redisVal' = CurrentTime
            /\ fileVal' = fileVal
       ELSE /\ redisVal' = redisVal
            /\ fileVal' = IF fileOk THEN CurrentTime ELSE fileVal
  /\ UNCHANGED <<adminVars, modifiedTime, webhookVars, redisUp, pollerVars, workerVars>>

\* ------------------------------------------------------ admin processes
\* migrate_file_state_to_redis, one run. The state file holds the poller's
\* cursor; writeOk: Redis still answers when the keys are set, after
\* StateManager() connected. The results of set_last_sync_time and set_state
\* are not looked at (lines 46-49).
MigrateState(writeOk) ==
  /\ (~redisUp \/ fileVal = NoVal) => writeOk
  /\ IF ~redisUp
       THEN /\ migration' = [migration EXCEPT !.bit = 1 - @, !.returned = "false"]
            /\ UNCHANGED storeVars
     ELSE IF fileVal = NoVal
       THEN /\ migration' = [migration EXCEPT !.bit = 1 - @, !.returned = "true"]
            /\ UNCHANGED storeVars
     ELSE /\ redisUp' = writeOk
          /\ redisVal' = IF writeOk THEN fileVal ELSE redisVal
          /\ fileVal' = NoVal
          /\ migration' = [bit |-> 1 - migration.bit, returned |-> "true",
                           backup |-> fileVal]
  /\ UNCHANGED <<now, modifiedTime, webhookVars, pollerVars, workerVars,
                 shutdown_handler, startup_optimizer>>

\* ---------------------------------------------------- graceful shutdown
\* the callables a process registers for its shutdown
Callbacks == {"cb1", "cb2", "cb3"}

\* shutdown_timeout, in ticks of the clock (30 seconds by default, line 13)
shutdown_timeout == 2

\* a deadline counted anew for every callback
remaining_time_percallback == shutdown_timeout

\* remaining_time at line 54, start_time being taken once at line 51
remaining_time == shutdown_timeout - (now - shutdown_handler.start_time)

\* a handler without the test of line 35
already_shutting_down_never == FALSE

\* the test of line 35
already_shutting_down == shutdown_handler.is_shutting_down

\* add_shutdown_callback
AddShutdownCallback(callback) ==
  /\ shutdown_handler.exit_status = None
  /\ ~shutdown_handler.is_shutting_down
  /\ \A i \in 1..Len(shutdown_handler.shutdown_callbacks) :
        shutdown_handler.shutdown_callbacks[i] # callback
  /\ shutdown_handler' =
       [shutdown_handler EXCEPT !.shutdown_callbacks = Append(@, callback)]
  /\ UNCHANGED <<now, modifiedTime, webhookVars, storeVars, pollerVars, workerVars,
                 migration, startup_optimizer>>

\* _signal_handler up to the call of _execute_shutdown_callbacks: SIGTERM or
\* SIGINT arrives. During a shutdown sys.exit(1) ends the process, whatever
\* callback is running; else the shutdown begins and start_time is taken
SignalHandler ==
  /\ shutdown_handler.exit_status = None
  /\ shutdown_handler' =
       IF already_shutting_down
         THEN [shutdown_handler EXCEPT !.signals = @ + 1,
                                       !.exit_status = 1,
                                       !.in_callback = FALSE]
         ELSE [shutdown_handler EXCEPT !.signals = @ + 1,
                                       !.is_shutting_down = TRUE,
                                       !.start_time = now,
                                       !.position = 1,
                                       !.in_callback = FALSE]
  /\ UNCHANGED <<now, modifiedTime, webhookVars, storeVars, pollerVars, workerVars,
                 migration, startup_optimizer>>

\* the for loop of _execute_shutdown_callbacks: the next callback is called
\* when time remains
StartCallback ==
  /\ shutdown_handler.exit_status = None
  /\ shutdown_handler.is_shutting_down
  /\ ~shutdown_handler.in_callback
  /\ shutdown_handler.position <= Len(shutdown_handler.shutdown_callbacks)
  /\ remaining_time > 0
  /\ shutdown_handler' =
       [shutdown_handler EXCEPT
          !.in_callback = TRUE,
          !.started = Append(@, shutdown_handler.shutdown_callbacks[
                                  shutdown_handler.position])]
  /\ UNCHANGED <<now, modifiedTime, webhookVars, storeVars, pollerVars, workerVars,
                 migration, startup_optimizer>>

\* the running callback returns, or raises an Exception that lines 62-63 log
EndCallback(raises) ==
  /\ shutdown_handler.exit_status = None
  /\ shutdown_handler.in_callback
  /\ shutdown_handler' =
       [shutdown_handler EXCEPT
          !.in_callback = FALSE,
          !.position = @ + 1,
          !.raised = IF raises
                       THEN @ \cup {shutdown_handler.shutdown_callbacks[
                                      shutdown_handler.position]}
                       ELSE @]
  /\ UNCHANGED <<now, modifiedTime, webhookVars, storeVars, pollerVars, workerVars,
                 migration, startup_optimizer>>

\* the loop ends (all callbacks called, or the break of line 57) and
\* _signal_handler calls sys.exit(0)
ExitCleanly ==
  /\ shutdown_handler.exit_status = None
  /\ shutdown_handler.is_shutting_down
  /\ ~shutdown_handler.in_callback
  /\ \/ shutdown_handler.position > Len(shutdown_handler.shutdown_callbacks)
     \/ remaining_time <= 0
  /\ shutdown_handler' = [shutdown_handler EXCEPT !.exit_status = 0]
  /\ UNCHANGED <<now, modifiedTime, webhookVars, storeVars, pollerVars, workerVars,
                 migration, startup_optimizer>>

\* ------------------------------------------------------ startup sequence
\* the names of the tasks a process registers for its startup
TaskNames == {"t1", "t2", "t3"}

\* run_startup_sequence lines 46-47: the two lists, in registration order
critical_tasks ==
  SelectSeq(startup_optimizer.startup_tasks, LAMBDA task : task.critical)
non_critical_tasks ==
  SelectSeq(startup_optimizer.startup_tasks, LAMBDA task : ~task.critical)

\* the names of the tasks of a list
task_names(tasks) == {tasks[i].name : i \in 1..Len(tasks)}

\* _run_tasks_sequential going on after a task that raised
sequential_aborts_never(raises) == FALSE

\* _run_tasks_sequential returns False at the first task that raises (line 93)
sequential_aborts(raises) == raises

\* add_startup_task
AddStartupTask(name, critical) ==
  /\ startup_optimizer.phase = "registering"
  /\ name \notin task_names(startup_optimizer.startup_tasks)
  /\ startup_optimizer' =
       [startup_optimizer EXCEPT
          !.startup_tasks = Append(@, [name |-> name, critical |-> critical])]
  /\ UNCHANGED <<now, modifiedTime, webhookVars, storeVars, pollerVars, workerVars,
                 migration, shutdown_handler>>

\* run_startup_sequence is called
RunStartupSequence ==
  /\ startup_optimizer.phase = "registering"
  /\ startup_optimizer' = [startup_optimizer EXCEPT !.phase = "critical",
                                                    !.position = 1]
  /\ UNCHANGED <<now, modifiedTime, webhookVars, storeVars, pollerVars, workerVars,
                 migration, shutdown_handler>>

\* _run_tasks_sequential calls the next critical task
StartCriticalTask ==
  /\ startup_optimizer.phase = "critical"
  /\ startup_optimizer.running = {}
  /\ startup_optimizer.position <= Len(critical_tasks)
  /\ LET name == critical_tasks[startup_optimizer.position].name
     IN  startup_optimizer' = [startup_optimizer EXCEPT !.started = Append(@, name),
                                                       !.running = {name}]
  /\ UNCHANGED <<now, modifiedTime, webhookVars, storeVars, pollerVars, workerVars,
                 migration, shutdown_handler>>

\* the critical task returns or raises (lines 74-93)
EndCriticalTask(raises) ==
  /\ startup_optimizer.phase = "critical"
  /\ startup_optimizer.running # {}
  /\ startup_optimizer' =
       IF sequential_aborts(raises)
         THEN [startup_optimizer EXCEPT
                 !.running = {},
                 !.failed = @ \cup startup_optimizer.running,
                 !.phase = "returned",
                 !.returned = "false"]
         ELSE [startup_optimizer EXCEPT
                 !.running = {},
                 !.failed = IF raises THEN @ \cup startup_optimizer.running ELSE @,
                 !.position = @ + 1]
  /\ UNCHANGED <<now, modifiedTime, webhookVars, storeVars, pollerVars, workerVars,
                 migration, shutdown_handler>>

\* _run_tasks_sequential returned True: run_startup_sequence goes on to the
\* non-critical tasks (lines 55-58)
CriticalTasksDone ==
  /\ startup_optimizer.phase = "critical"
  /\ startup_optimizer.running = {}
  /\ startup_optimizer.position > Len(critical_tasks)
  /\ startup_optimizer' = [startup_optimizer EXCEPT !.phase = "parallel"]
  /\ UNCHANGED <<now, modifiedTime, webhookVars, storeVars, pollerVars, workerVars,
                 migration, shutdown_handler>>

\* _run_tasks_parallel: a thread of the pool begins a submitted task
StartNonCriticalTask(name) ==
  /\ startup_optimizer.phase = "parallel"
  /\ name \in task_names(non_critical_tasks)
  /\ \A i \in 1..Len(startup_optimizer.started) : startup_optimizer.started[i] # name
  /\ startup_optimizer' = [startup_optimizer EXCEPT !.started = Append(@, name),
                                                    !.running = @ \cup {name}]
  /\ UNCHANGED <<now, modifiedTime, webhookVars, storeVars, pollerVars, workerVars,
                 migration, shutdown_handler>>

\* a non-critical task ends; bad: it raised, or future.result timed out
\* before it ended (lines 108-113 log either)
EndNonCriticalTask(name, bad) ==
  /\ startup_optimizer.phase = "parallel"
  /\ name \in startup_optimizer.running
  /\ startup_optimizer' =
       [startup_optimizer EXCEPT !.running = @ \ {name},
                                 !.failed = IF bad THEN @ \cup {name} ELSE @]
  /\ UNCHANGED <<now, modifiedTime, webhookVars, storeVars, pollerVars, workerVars,
                 migration, shutdown_handler>>

\* the executor has shut down, every submitted task having ended, and
\* run_startup_sequence returns True (line 65)
StartupReturns ==
  /\ startup_optimizer.phase = "parallel"
  /\ startup_optimizer.running = {}
  /\ \A name \in task_names(non_critical_tasks) :
        \E i \in 1..Len(startup_optimizer.started) : startup_optimizer.started[i] = name
  /\ startup_optimizer' = [startup_optimizer EXCEPT !.phase = "returned",
                                                    !.returned = "true"]
  /\ UNCHANGED <<now, modifiedTime, webhookVars, storeVars, pollerVars, workerVars,
                 migration, shutdown_handler>>

\* ------------------------------------------------ watched folder, worker
\* a document of the watched folder is created or modified
Modify(d) ==
  /\ now < MaxTime
  /\ now' = now + 1
  /\ modifiedTime' = [modifiedTime EXCEPT ![d] = now + 1]
  /\ UNCHANGED <<adminVars, webhookVars, storeVars, pollerVars, workerVars>>

\* GoogleDriveManager.get_folder_files; err: the listing raises
get_folder_files(err) ==
  IF err THEN {} ELSE {d \in Docs : modifiedTime[d] # Absent}

\* S3Worker.process_message for the message at the head of the queue: list the
\* folder, sync every listed file (failed: the files whose sync fails), ack
ProcessMessage(listErr, failed) ==
  /\ queue # <<>>
  /\ queue' = Tail(queue)
  /\ LET listed == get_folder_files(listErr)
     IN  /\ listedVersion' = [d \in Docs |->
               IF d \in listed THEN modifiedTime[d] ELSE listedVersion[d]]
         /\ uploadedVersion' = [d \in Docs |->
               IF d \in listed \ failed THEN modifiedTime[d] ELSE uploadedVersion[d]]
  /\ UNCHANGED <<adminVars, now, modifiedTime, brokerUp, connection, reqBit, lastReq, lastResp,
                 publishCalls, connectCalls, storeVars, pollerVars, sanVars, jobVars>>

\* --------------------------------------------------- sanitize_filename
\* A file name is a sequence of characters. The characters tried: a letter, a
\* space, an underscore, a slash (one of the replaced class), a hyphen (ASCII,
\* not replaced), a dot, an accented letter (NFKD: base letter + combining
\* mark) and a character with no ASCII decomposition.
Chars == {"a", " ", "_", "/", "-", ".", "E_ACUTE", "CJK"}

RECURSIVE SeqsUpTo(_)
SeqsUpTo(n) ==
  IF n = 0 THEN {<<>>}
  ELSE LET shorter == SeqsUpTo(n - 1)
       IN  shorter \cup {Append(x, c) : x \in shorter, c \in Chars}

FileNames == SeqsUpTo(MaxLen)

\* what unicodedata.normalize('NFKD', c).encode('ascii', 'ignore') keeps of c
ascii_of(c) ==
  IF c = "E_ACUTE" THEN <<"e">>
  ELSE IF c = "CJK" THEN <<>>
  ELSE <<c>>

RECURSIVE sanitize_ascii(_)
sanitize_ascii(value) ==
  IF value = <<>> THEN <<>>
  ELSE ascii_of(Head(value)) \o sanitize_ascii(Tail(value))

\* the characters replaced by '_' at lines 40-58
ReplacedChars == {" ", "/", "\\", "?", "#", "[", "]", "@", "!", "$", "&", "'",
                  "(", ")", "*", "+", ",", ";", "="}

replace_chars(name) ==
  [i \in 1..Len(name) |-> IF name[i] \in ReplacedChars THEN "_" ELSE name[i]]

has_double_underscore(name) ==
  \E i \in 1..(Len(name) - 1) : name[i] = "_" /\ name[i + 1] = "_"

\* str.replace('__', '_'): one pass, left to right, non-overlapping
RECURSIVE replace_double(_)
replace_double(name) ==
  IF Len(name) < 2 THEN name
  ELSE IF name[1] = "_" /\ name[2] = "_"
    THEN <<"_">> \o replace_double(SubSeq(name, 3, Len(name)))
    ELSE <<name[1]>> \o replace_double(Tail(name))

\* the loop of lines 61-62
RECURSIVE collapse_underscores(_)
collapse_underscores(name) ==
  IF has_double_underscore(name) THEN collapse_underscores(replace_double(name))
  ELSE name

\* str.strip('_')
RECURSIVE strip_underscores(_)
strip_underscores(name) ==
  IF name = <<>> THEN name
  ELSE IF Head(name) = "_" THEN strip_underscores(Tail(name))
  ELSE IF name[Len(name)] = "_" THEN strip_underscores(SubSeq(name, 1, Len(name) - 1))
  ELSE name

\* a placeholder that is not itself a safe name
unnamed_file_spaced == <<"u", "n", "n", "a", "m", "e", "d", " ", "f", "i", "l", "e">>

\* the placeholder of line 67
unnamed_file == <<"u", "n", "n", "a", "m", "e", "d", "_", "f", "i", "l", "e">>

\* sanitize_filename without the strip of line 65
sanitize_filename_nostrip(name) ==
  LET safe == collapse_underscores(replace_chars(sanitize_ascii(name)))
  IN  IF safe # <<>> THEN safe ELSE unnamed_file

sanitize_filename(name) ==
  LET safe == strip_underscores(collapse_underscores(replace_chars(sanitize_ascii(name))))
  IN  IF safe # <<>> THEN safe ELSE unnamed_file

\* one call of sanitize_filename
Sanitize ==
  /\ spc = "ready"
  /\ safe_name' = sanitize_filename(filename)
  /\ spc' = "done"
  /\ UNCHANGED <<adminVars, now, modifiedTime, webhookVars, storeVars, pollerVars,
                 listedVersion, uploadedVersion, filename, jobVars>>

\* ------------------------------------------- upload worker, step by step
\* file_info['name'] and file_info['mimeType'] of the documents of the folder
file_name(d) == IF d = "d1" THEN <<"a", " ", "a">> ELSE <<"a", "/", "a">>
mime_type(d) == "application/vnd.google-apps.document"

mime_to_ext(mime) ==
  IF mime = "application/vnd.google-apps.document" THEN <<".", "d", "o", "c", "x">>
  ELSE IF mime = "text/plain" THEN <<".", "t", "x", "t">>
  ELSE <<>>

endswith(name, ext) ==
  /\ Len(name) >= Len(ext)
  /\ SubSeq(name, Len(name) - Len(ext) + 1, Len(name)) = ext

add_appropriate_extension(name, mime) ==
  LET file_ext == mime_to_ext(mime)
  IN  IF file_ext # <<>> /\ ~endswith(name, file_ext) THEN name \o file_ext ELSE name

\* the part of s3_key after the timestamp (lines 181, 192)
safe_filename(d) ==
  sanitize_filename(add_appropriate_extension(file_name(d), mime_type(d)))

no_files == <<"n", "o", "_", "f", "i", "l", "e", "s", ".", "t", "x", "t">>

\* datetime.now().strftime("%Y/%m/%d/%H%M%S"): the clock read to the second
timestamp == now

\* the object a put_object call stores: its key is prefix/ts_name, its body
\* is that of document doc
ContentObject(d) ==
  [prefix |-> "files", ts |-> timestamp, name |-> safe_filename(d), doc |-> d]
MetadataObject(d) ==
  [prefix |-> "metadata", ts |-> timestamp,
   name |-> safe_filename(d) \o <<".", "j", "s", "o", "n">>, doc |-> d]
MarkerObject ==
  [prefix |-> "webhook-events", ts |-> timestamp, name |-> no_files, doc |-> ABSENT]

Key(o) == <<o.prefix, o.ts, o.name>>

\* s3_client.put_object: an object under an existing key is replaced
put_object(bucket, o) == {x \in bucket : Key(x) # Key(o)} \cup {o}

\* a body json.loads cannot decode
RawBody == [NoMsg EXCEPT !.event_type = "<undecodable>"]

\* start_consuming without the basic_qos call: no limit, the broker hands out
\* every message it has
prefetch_count_unlimited == Len(queue) + 1

\* the prefetch limit set by start_consuming at line 126
prefetch_count == 1

\* the messages the broker holds as delivered to the worker and not yet
\* acknowledged: to a consuming worker it hands out what is in the queue up
\* to the prefetch limit, the message in process_message counting as one
unacknowledged ==
  LET outstanding == (IF delivery # NoMsg THEN 1 ELSE 0) + Len(queue)
  IN  IF wpc = "stopped" THEN 0
      ELSE IF outstanding < prefetch_count THEN outstanding
      ELSE prefetch_count

\* start_consuming
WorkerStart ==
  /\ wpc = "stopped"
  /\ wpc' = "waiting"
  /\ UNCHANGED <<adminVars, now, modifiedTime, webhookVars, storeVars, pollerVars,
                 listedVersion, uploadedVersion, sanVars, s3Up, s3, event_puts,
                 replaced, delivery, files, next_file, success_count, fail_count,
                 runs, acks, nacks>>

\* KeyboardInterrupt (or the process being killed) at any point: it is not an
\* Exception, so no handler of process_message sees it; the connection closes
\* and the broker puts the unacknowledged delivery back on the queue
Interrupt ==
  /\ wpc # "stopped"
  /\ wpc' = "stopped"
  /\ queue' = IF delivery # NoMsg THEN <<delivery>> \o queue ELSE queue
  /\ delivery' = NoMsg
  /\ files' = <<>>
  /\ next_file' = 1
  /\ success_count' = 0
  /\ fail_count' = 0
  /\ event_puts' = NoPuts
  /\ UNCHANGED <<adminVars, now, modifiedTime, brokerUp, connection, reqBit, lastReq, lastResp,
                 publishCalls, connectCalls, storeVars, pollerVars, listedVersion, uploadedVersion,
                 sanVars, s3Up, s3, replaced, runs, acks, nacks>>

\* basic_nack(requeue=True)
nack_requeue_true == TRUE

\* the requeue argument of basic_nack at line 166
nack_requeue == FALSE

\* create_webhook_event_file never reaching put_object
marker_written_never == FALSE

\* create_webhook_event_file: TRUE when its put_object call succeeded (a
\* failure is logged at line 423 and goes no further)
marker_written == s3Up

\* process_message up to the for loop: decode, list, and for an empty listing
\* write the marker and acknowledge
Deliver(listErr) ==
  /\ wpc = "waiting"
  /\ queue # <<>>
  /\ runs < MaxRuns
  /\ runs' = runs + 1
  /\ next_file' = 1
  /\ success_count' = 0
  /\ fail_count' = 0
  /\ IF Head(queue) = RawBody
       THEN /\ nacks' = nacks + 1
            /\ queue' = IF nack_requeue THEN queue ELSE Tail(queue)
            /\ files' = <<>>
            /\ event_puts' = NoPuts
            /\ UNCHANGED <<wpc, delivery, s3, acks>>
     ELSE LET listed == ListingSeq(get_folder_files(listErr))
          IN  /\ queue' = Tail(queue)
              /\ files' = listed
              /\ IF listed # <<>>
                   THEN /\ wpc' = "syncing"
                        /\ delivery' = Head(queue)
                        /\ event_puts' = NoPuts
                        /\ UNCHANGED <<s3, acks>>
                   ELSE /\ s3' = IF marker_written THEN put_object(s3, MarkerObject)
                                                   ELSE s3
                        /\ event_puts' = [NoPuts EXCEPT !.markers =
                                            IF marker_written THEN 1 ELSE 0]
                        /\ acks' = acks + 1
                        /\ UNCHANGED <<wpc, delivery>>
              /\ nacks' = nacks
  /\ UNCHANGED <<adminVars, now, modifiedTime, brokerUp, connection, reqBit, lastReq, lastResp,
                 publishCalls, connectCalls, storeVars, pollerVars, listedVersion, uploadedVersion,
                 sanVars, s3Up, replaced>>

\* sync_file_to_s3 counting a file whose download returned None as synced
sync_result_nodownload(downloadOk, uploadOk) == uploadOk

\* the return value of sync_file_to_s3
sync_result(downloadOk, uploadOk) == downloadOk /\ uploadOk

\* upload_to_s3 without the raise of line 334: a failed upload is only logged
metadata_attempted_afterfailedupload(downloadOk, uploadOk) == downloadOk

\* create_metadata_file is called (line 197) only when download_file returned
\* content and upload_to_s3 returned without raising
metadata_attempted(downloadOk, uploadOk) == downloadOk /\ uploadOk

\* one iteration of the for loop: sync_file_to_s3 for files[next_file].
\* downloadOk: download_file returned content; metaOk: the storage still
\* answers when create_metadata_file makes its put_object call
SyncFile(downloadOk, metaOk) ==
  /\ wpc = "syncing"
  /\ next_file <= Len(files)
  /\ (~downloadOk \/ ~s3Up) => metaOk
  /\ LET d == files[next_file]
         uploadOk == s3Up
         stored == downloadOk /\ uploadOk
         s3_1 == IF stored THEN put_object(s3, ContentObject(d)) ELSE s3
         recorded == metadata_attempted(downloadOk, uploadOk) /\ metaOk
     IN  /\ s3' = IF recorded THEN put_object(s3_1, MetadataObject(d)) ELSE s3_1
         /\ event_puts' =
              [event_puts EXCEPT
                 !.files = IF stored THEN @ + 1 ELSE @,
                 !.metadata = IF recorded THEN @ + 1 ELSE @]
         /\ replaced' =
              IF stored /\ \E x \in s3 : Key(x) = Key(ContentObject(d)) /\ x.doc = d
                THEN replaced \cup {d} ELSE replaced
         /\ s3Up' = IF stored THEN metaOk ELSE s3Up
         /\ success_count' = IF sync_result(downloadOk, uploadOk)
                               THEN success_count + 1 ELSE success_count
         /\ fail_count' = IF stored THEN fail_count ELSE fail_count + 1
  /\ next_file' = next_file + 1
  /\ UNCHANGED <<adminVars, now, modifiedTime, webhookVars, storeVars, pollerVars,
                 listedVersion, uploadedVersion, sanVars, wpc, delivery, files,
                 runs, acks, nacks>>

\* a for loop that ends after the first file
loop_done_first == next_file > 1

\* the for loop of lines 153-155 has gone through files
loop_done == next_file > Len(files)

\* process_message after the for loop: basic_ack
Finish ==
  /\ wpc = "syncing"
  /\ loop_done
  /\ acks' = acks + 1
  /\ delivery' = NoMsg
  /\ wpc' = "waiting"
  /\ UNCHANGED <<adminVars, now, modifiedTime, webhookVars, storeVars, pollerVars,
                 listedVersion, uploadedVersion, sanVars, s3Up, s3, event_puts,
                 replaced, files, next_file, success_count, fail_count, runs, nacks>>

\* process_message when the connection to the broker was lost while the
\* files were synced: basic_ack at line 161 raises, the handler's basic_nack at
\* line 166 raises as well, the exception leaves process_message and
\* start_consuming (which catches KeyboardInterrupt only); the broker puts
\* the delivery back on the queue
FinishLost ==
  /\ wpc = "syncing"
  /\ loop_done
  /\ wpc' = "stopped"
  /\ queue' = <<delivery>> \o queue
  /\ delivery' = NoMsg
  /\ UNCHANGED <<adminVars, now, modifiedTime, brokerUp, connection, reqBit, lastReq, lastResp,
                 publishCalls, connectCalls, storeVars, pollerVars, listedVersion,
                 uploadedVersion, sanVars, s3Up, s3, event_puts, replaced, files,
                 next_file, success_count, fail_count, runs, acks, nacks>>

\* the notification every push of the provider carries
PushRequest ==
  [client_ip |-> "127.0.0.1", token |-> WEBHOOK_VERIFICATION_TOKEN,
   channel |-> "ch1", state |-> "sync", auto_sync |-> FALSE, body |-> NoBody]

\* another producer puts a body that is not JSON on webhook_queue
PublishRaw ==
  /\ Len(queue) < MaxQueue
  /\ queue' = Append(queue, RawBody)
  /\ UNCHANGED <<adminVars, now, modifiedTime, brokerUp, connection, reqBit, lastReq, lastResp,
                 publishCalls, connectCalls, storeVars, pollerVars, workerVars>>

\* a second passes
Tick ==
  /\ now < MaxTime
  /\ now' = now + 1
  /\ UNCHANGED <<adminVars, modifiedTime, webhookVars, storeVars, pollerVars, workerVars>>

S3Fail ==
  /\ s3Up
  /\ s3Up' = FALSE
  /\ UNCHANGED <<adminVars, now, modifiedTime, webhookVars, storeVars, pollerVars,
                 listedVersion, uploadedVersion, sanVars, s3, event_puts, replaced,
                 wpc, delivery, files, next_file, success_count, fail_count, runs,
                 acks, nacks>>

S3Recover ==
  /\ ~s3Up
  /\ s3Up' = TRUE
  /\ UNCHANGED <<adminVars, now, modifiedTime, webhookVars, storeVars, pollerVars,
                 listedVersion, uploadedVersion, sanVars, s3, event_puts, replaced,
                 wpc, delivery, files, next_file, success_count, fail_count, runs,
                 acks, nacks>>

\* ------------------------------------------------------- specifications
Next ==
  \/ \E req \in Requests : WebhookRequest(req)
  \/ BrokerFail
  \/ BrokerRecover
  \/ RedisFail
  \/ RedisRecover
  \/ PollerStart
  \/ PollerStop
  \/ \E err \in BOOLEAN : CheckForChanges(err)
  \/ \E lost \in BOOLEAN : TriggerWebhook(lost)
  \/ \E fileOk \in BOOLEAN : AdvanceCursor(fileOk)
  \/ \E fileOk \in BOOLEAN : ResetState(fileOk)
  \/ \E writeOk \in BOOLEAN : MigrateState(writeOk)
  \/ \E callback \in Callbacks : AddShutdownCallback(callback)
  \/ SignalHandler
  \/ StartCallback
  \/ \E raises \in BOOLEAN : EndCallback(raises)
  \/ ExitCleanly
  \/ \E name \in TaskNames, critical \in BOOLEAN : AddStartupTask(name, critical)
  \/ RunStartupSequence
  \/ StartCriticalTask
  \/ \E raises \in BOOLEAN : EndCriticalTask(raises)
  \/ CriticalTasksDone
  \/ \E name \in TaskNames : StartNonCriticalTask(name)
  \/ \E name \in TaskNames, bad \in BOOLEAN : EndNonCriticalTask(name, bad)
  \/ StartupReturns
  \/ \E d \in Docs : Modify(d)
  \/ \E listErr \in BOOLEAN, failed \in SUBSET Docs : ProcessMessage(listErr, failed)
  \/ PublishRaw
  \/ Tick
  \/ S3Fail
  \/ S3Recover
  \/ WorkerStart
  \/ Interrupt
  \/ \E listErr \in BOOLEAN : Deliver(listErr)
  \/ \E downloadOk, metaOk \in BOOLEAN : SyncFile(downloadOk, metaOk)
  \/ Finish
  \/ FinishLost
  \/ Sanitize

Spec == Init /\ [][Next]_vars

\* the ingestion endpoint with its broker, and the worker draining the queue
WebhookNext ==
  \/ \E req \in Requests : WebhookRequest(req)
  \/ BrokerFail
  \/ BrokerRecover
  \/ ProcessMessage(FALSE, {})

WebhookSpec == Init /\ [][WebhookNext]_vars

\* the poller with its cursor store, the endpoint it posts to and the folder;
\* the worker only takes the messages off the queue (a delivery whose listing
\* fails: what the worker lists and uploads is no part of the poller's state)
PollerNext ==
  \/ BrokerFail
  \/ BrokerRecover
  \/ RedisFail
  \/ RedisRecover
  \/ PollerStart
  \/ PollerStop
  \/ \E err \in BOOLEAN : CheckForChanges(err)
  \/ \E lost \in BOOLEAN : TriggerWebhook(lost)
  \/ \E fileOk \in BOOLEAN : AdvanceCursor(fileOk)
  \/ \E d \in Docs : Modify(d)
  \/ ProcessMessage(TRUE, {})

PollerSpec == Init /\ [][PollerNext]_vars

\* the poller under outages of the remote store and of the broker, with a
\* local state file that can always be written
OutageNext ==
  \/ BrokerFail
  \/ BrokerRecover
  \/ RedisFail
  \/ RedisRecover
  \/ PollerStart
  \/ PollerStop
  \/ \E err \in BOOLEAN : CheckForChanges(err)
  \/ \E lost \in BOOLEAN : TriggerWebhook(lost)
  \/ AdvanceCursor(TRUE)
  \/ \E d \in Docs : Modify(d)
  \/ ProcessMessage(TRUE, {})

OutageSpec == Init /\ [][OutageNext]_vars

\* the poller and the operator's state reset, with outages of the remote store
ResetNext ==
  \/ RedisFail
  \/ RedisRecover
  \/ PollerStart
  \/ PollerStop
  \/ CheckForChanges(FALSE)
  \/ TriggerWebhook(FALSE)
  \/ AdvanceCursor(TRUE)
  \/ ResetState(TRUE)
  \/ \E d \in Docs : Modify(d)
  \/ ProcessMessage(TRUE, {})

ResetSpec == Init /\ [][ResetNext]_vars

\* the one-off migration of the state file, run at any time beside a poller
\* that writes the file while the remote store is unreachable
MigrateNext ==
  \/ RedisFail
  \/ RedisRecover
  \/ PollerStart
  \/ PollerStop
  \/ CheckForChanges(FALSE)
  \/ TriggerWebhook(FALSE)
  \/ AdvanceCursor(TRUE)
  \/ \E writeOk \in BOOLEAN : MigrateState(writeOk)
  \/ \E d \in Docs : Modify(d)
  \/ ProcessMessage(TRUE, {})

MigrateSpec == Init /\ [][MigrateNext]_vars

\* a process with a GracefulShutdownHandler: callbacks are registered,
\* signals arrive at any time, callbacks take any time
ShutdownNext ==
  \/ \E callback \in Callbacks : AddShutdownCallback(callback)
  \/ SignalHandler
  \/ StartCallback
  \/ \E raises \in BOOLEAN : EndCallback(raises)
  \/ ExitCleanly
  \/ Tick

ShutdownSpec == Init /\ [][ShutdownNext]_vars

\* the same process when every callback returns or raises in the end and the
\* handler, running in the main thread, goes on whenever it can
ShutdownFairSpec ==
  /\ ShutdownSpec
  /\ WF_vars(StartCallback)
  /\ WF_vars(\E raises \in BOOLEAN : EndCallback(raises))
  /\ WF_vars(ExitCleanly)

\* a process with a StartupOptimizer: tasks are registered, then run
StartupNext ==
  \/ \E name \in TaskNames, critical \in BOOLEAN : AddStartupTask(name, critical)
  \/ RunStartupSequence
  \/ StartCriticalTask
  \/ \E raises \in BOOLEAN : EndCriticalTask(raises)
  \/ CriticalTasksDone
  \/ \E name \in TaskNames : StartNonCriticalTask(name)
  \/ \E name \in TaskNames, bad \in BOOLEAN : EndNonCriticalTask(name, bad)
  \/ StartupReturns

StartupSpec == Init /\ [][StartupNext]_vars

\* the services as Init leaves them: everything but the folder and the
\* argument of sanitize_filename
ServicesInit ==
  /\ now = WarmupTicks
  /\ brokerUp = TRUE
  /\ connection = "open"
  /\ queue = <<>>
  /\ reqBit = 0
  /\ lastReq = NoReq
  /\ lastResp = NoResp
  /\ publishCalls = 0
  /\ connectCalls = 0
  /\ redisUp = TRUE
  /\ redisVal = NoVal
  /\ fileVal = NoVal
  /\ pc = "down"
  /\ state_manager = FALSE
  /\ last_sync_time = None
  /\ modified_files = {}
  /\ cycleBit = 0
  /\ cycleStart = NoCycle
  /\ cycleResult = "none"
  /\ triggerFailed = FALSE
  /\ listedVersion = [d \in Docs |-> Absent]
  /\ uploadedVersion = [d \in Docs |-> Absent]
  /\ WorkerInit
  /\ AdminInit

\* sanitize_filename applied to every file name up to MaxLen characters
SanitizeInit ==
  /\ ServicesInit
  /\ modifiedTime = [d \in Docs |-> Absent]
  /\ filename \in FileNames
  /\ safe_name = <<>>
  /\ spc = "ready"

SanitizeNext == Sanitize

SanitizeSpec == SanitizeInit /\ [][SanitizeNext]_vars

\* the folders a worker can find when it starts: each document absent, or
\* last modified at some time up to now
Folders == [Docs -> {Absent} \cup (1..WarmupTicks)]

FolderInit ==
  /\ ServicesInit
  /\ modifiedTime \in Folders
  /\ filename = <<>>
  /\ safe_name = <<>>
  /\ spc = "ready"

\* the upload worker, its queue and the object storage, over a folder that
\* does not change
WorkerNext ==
  \/ WebhookRequest(PushRequest)
  \/ PublishRaw
  \/ S3Fail
  \/ S3Recover
  \/ WorkerStart
  \/ Interrupt
  \/ \E listErr \in BOOLEAN : Deliver(listErr)
  \/ \E downloadOk, metaOk \in BOOLEAN : SyncFile(downloadOk, metaOk)
  \/ Finish

WorkerSpec == FolderInit /\ [][WorkerNext]_vars

\* the worker running without being interrupted, over a folder that does not
\* change, its connection to the broker being lost at times
ConsumerNext ==
  \/ WebhookRequest(PushRequest)
  \/ PublishRaw
  \/ S3Fail
  \/ S3Recover
  \/ WorkerStart
  \/ \E listErr \in BOOLEAN : Deliver(listErr)
  \/ \E downloadOk, metaOk \in BOOLEAN : SyncFile(downloadOk, metaOk)
  \/ Finish
  \/ FinishLost

ConsumerSpec == FolderInit /\ [][ConsumerNext]_vars

\* the upload worker and the object storage as time passes and the folder
\* changes
StorageNext ==
  \/ WebhookRequest(PushRequest)
  \/ \E d \in Docs : Modify(d)
  \/ Tick
  \/ S3Fail
  \/ S3Recover
  \/ WorkerStart
  \/ \E listErr \in BOOLEAN : Deliver(listErr)
  \/ \E downloadOk, metaOk \in BOOLEAN : SyncFile(downloadOk, metaOk)
  \/ Finish

StorageSpec == Init /\ [][StorageNext]_vars

\* the pipeline with no dependency failure: poller, endpoint, queue, worker
PipelineNext ==
  \/ PollerStart
  \/ CheckForChanges(FALSE)
  \/ TriggerWebhook(FALSE)
  \/ AdvanceCursor(TRUE)
  \/ \E d \in Docs : Modify(d)
  \/ ProcessMessage(FALSE, {})

PipelineSpec == Init /\ [][PipelineNext]_vars

\* ================================================================ claims
\* the resource-state enumeration of the data model
StateEnumeration == {"sync", "update", "exists", "not_exists", "trash", "untrash"}

OriginAllowed(req) == req.client_ip \in ALLOWED_IPS
TokenCorrect(req) == req.token = WEBHOOK_VERIFICATION_TOKEN
ShapeValid(req) ==
  req.channel # ABSENT /\ req.state # ABSENT /\ req.state \in StateEnumeration
ValidNotification(req) == OriginAllowed(req) /\ TokenCorrect(req) /\ ShapeValid(req)

\* a step that handles one request at the ingestion endpoint
HandlesRequest == reqBit' # reqBit

\* the one event the endpoint publishes for request req received at time t
EventOf(req, t) ==
  [event_id |-> req.channel, event_type |-> "webhook_received",
   resource_state |-> req.state, timestamp |-> t, auto_sync |-> req.auto_sync]

\* C1: a request that fails any validation (origin, token, channel id, resource
\* state missing or outside the enumeration) publishes nothing and changes no
\* other state: queue, connection, clock, folder, store, poller and worker stay.
C1_RejectedChangesNothing ==
  [][(HandlesRequest /\ ~ValidNotification(lastReq'))
       => /\ queue' = queue
          /\ publishCalls' = 0
          /\ UNCHANGED <<brokerUp, connection, now, modifiedTime, storeVars,
                         pollerVars, workerVars>>]_vars

\* a rejected request (wrong token from an allowed origin) handled while an
\* earlier event is in the queue
C1_Witness ==
  /\ OriginAllowed(lastReq) /\ lastReq.token = "wrong" /\ ShapeValid(lastReq)
  /\ lastResp.status = 400
  /\ Len(queue) = 1

\* C2 as stated: every valid notification publishes exactly one event and is
\* answered 200 with that event's id and timestamp.
C2_ValidAlwaysPublished ==
  [][(HandlesRequest /\ ValidNotification(lastReq'))
       => /\ queue' = Append(queue, EventOf(lastReq', now))
          /\ lastResp' = [status |-> 200, event_id |-> lastReq'.channel,
                          timestamp |-> now]]_vars

\* C2 amended: every valid notification handled while the broker is reachable
\* and the endpoint's connection is not a lost one publishes exactly one event
\* and is answered 200 with that event's id and timestamp.
C2_ValidPublishedWhenBrokerReachable ==
  [][(HandlesRequest /\ ValidNotification(lastReq') /\ brokerUp /\ connection # "stale")
       => /\ queue' = Append(queue, EventOf(lastReq', now))
          /\ lastResp' = [status |-> 200, event_id |-> lastReq'.channel,
                          timestamp |-> now]]_vars

\* a valid push notification answered 200, its event in the queue
C2_Witness ==
  /\ ValidNotification(lastReq) /\ ~lastReq.auto_sync
  /\ lastResp.status = 200 /\ lastResp.event_id = "ch1"
  /\ Len(queue) = 1 /\ queue[1].event_id = "ch1"
  /\ connection = "open" /\ brokerUp

\* C3: 200 is returned only when the request's event was enqueued; when the
\* publish or the reconnect before it fails the answer is 500, nothing is
\* enqueued and at most one publish call was made for the request.
C3_SuccessOnlyAfterPublish ==
  [][HandlesRequest
       => /\ lastResp'.status = 200 => queue' = Append(queue, EventOf(lastReq', now))
          /\ (ValidNotification(lastReq') /\ (~brokerUp \/ connection = "stale"))
               => /\ lastResp'.status = 500
                  /\ queue' = queue
          /\ publishCalls' <= 1]_vars

\* a valid notification answered 500 after one failed publish call
C3_Witness ==
  /\ ValidNotification(lastReq)
  /\ lastResp.status = 500
  /\ publishCalls = 1
  /\ queue = <<>>

\* C4: a notification from an allowed origin whose token is not the configured
\* secret is answered with an authentication status (401 or 403), not 400.
C4_BadTokenIsAuthFailure ==
  (lastReq # NoReq /\ OriginAllowed(lastReq) /\ ~TokenCorrect(lastReq))
    => lastResp.status \in {401, 403}

\* C5: an authenticated notification without channel id, without resource state
\* or with a resource state outside the enumeration is answered 400 and nothing
\* is published.
C5_BadShapeIs400 ==
  [][(HandlesRequest /\ OriginAllowed(lastReq') /\ TokenCorrect(lastReq')
        /\ ~ShapeValid(lastReq'))
       => /\ lastResp'.status = 400
          /\ queue' = queue
          /\ publishCalls' = 0]_vars

\* an authenticated notification without a channel id, answered 400
C5_Witness ==
  /\ OriginAllowed(lastReq) /\ TokenCorrect(lastReq)
  /\ lastReq.channel = ABSENT /\ lastReq.state = "sync"
  /\ lastResp.status = 400
  /\ queue = <<>>

\* the latest modification of d has been seen by a worker folder listing
Listed(d) == listedVersion[d] = modifiedTime[d]

\* C6: no change is missed. After a cycle that published and advanced the
\* cursor, every document modified since that cycle's query has been listed by
\* the worker after its modification, or will be: an event is still queued, or
\* its modification time is after the cursor so that a later poll finds it.
C6_NoChangeMissed ==
  (pc = "idle" /\ cycleResult = "advanced")
    => \A d \in Docs :
         (modifiedTime[d] # Absent /\ modifiedTime[d] > cycleStart.at)
           => \/ Listed(d)
              \/ queue # <<>>
              \/ modifiedTime[d] > last_sync_time

\* the cursor values now equal those at the beginning of the cycle
CursorAsAtCycleStart ==
  /\ last_sync_time = cycleStart.working
  /\ redisVal = cycleStart.redis
  /\ fileVal = cycleStart.file

\* C7: when a cycle found documents and its publish failed (non-200 response,
\* timeout or connection error), the cursor is as before the cycle, both the
\* working value and the persisted values.
C7_FailedPublishKeepsCursor ==
  (pc = "idle" /\ cycleResult \in {"publish_failed", "advanced"} /\ triggerFailed)
    => CursorAsAtCycleStart

\* a finished cycle that found documents and got a 500 from the endpoint
C7_Witness ==
  /\ pc = "idle" /\ cycleResult = "publish_failed" /\ triggerFailed
  /\ modified_files # {}
  /\ lastReq.auto_sync /\ lastResp.status = 500
  /\ last_sync_time # None

\* the cursor a poller started now would load
LoadedByRestart == load_last_sync_time(redisUp)

\* C8: at the end of a cycle that found documents and published, the cursor
\* equals the time taken after the publish, as the working value and as the
\* value a restarted poller would load.
C8_CursorIsTimeAfterPublish ==
  [][(pc = "published" /\ pc' = "idle")
       => /\ last_sync_time' = now'
          /\ LoadedByRestart' = now']_vars

C10_NoChangesIsNoOp ==
  [][(cycleBit' # cycleBit /\ modified_files' = {})
       => /\ reqBit' = reqBit /\ queue' = queue
          /\ last_sync_time' = last_sync_time
          /\ redisVal' = redisVal /\ fileVal' = fileVal
          /\ pc' = "idle"]_vars

\* a finished cycle that found nothing although the folder holds a document
C10_Witness ==
  /\ pc = "idle" /\ cycleResult = "no_changes"
  /\ \E d \in Docs : modifiedTime[d] # Absent /\ modifiedTime[d] <= last_sync_time

\* the characters a sanitized name may consist of: letters, digits, '_', '.'
AllowedChars == {"a", "e", "u", "n", "m", "d", "f", "i", "l", "_", "."}

\* C17: the result of sanitize_filename contains no character outside letters,
\* digits, underscore and dot.
C17_OnlySafeChars ==
  spc = "done" => \A i \in 1..Len(safe_name) : safe_name[i] \in AllowedChars

\* C18: the result of sanitize_filename is non-empty, has no two consecutive
\* underscores, neither starts nor ends with an underscore, and is the
\* placeholder when nothing is left of the name.
C18_WellFormedName ==
  spc = "done"
    => /\ safe_name # <<>>
       /\ ~\E i \in 1..(Len(safe_name) - 1) : safe_name[i] = "_" /\ safe_name[i + 1] = "_"
       /\ safe_name[1] # "_"
       /\ safe_name[Len(safe_name)] # "_"
       /\ (\A i \in 1..Len(filename) : filename[i] \in {" ", "_", "/", "CJK"})
            => safe_name = unnamed_file

\* a name with a run of replaced characters inside and at its end
C18_Witness ==
  /\ spc = "done"
  /\ filename = <<"a", " ", "/", "a">>
  /\ safe_name = <<"a", "_", "a">>

\* C19: get on a reachable store holding no value returns the default
\* "now minus the warm-up window", never None.
C19_GetDefaultsToWarmup ==
  (redisUp /\ redisVal = NoVal) => get_last_sync_time = now - WarmupTicks

\* C20: a poller starting with the remote store reachable and empty and the
\* fallback file holding v uses v, writes v into the remote store and leaves
\* the file holding v.
C20_FallbackMigratedNotDeleted ==
  [][(pc = "down" /\ pc' = "idle" /\ redisUp /\ redisVal = NoVal /\ fileVal # NoVal)
       => /\ last_sync_time' = fileVal
          /\ redisVal' = fileVal
          /\ fileVal' = fileVal]_vars

\* a poller has started from the file value saved during an outage of the
\* remote store, which now holds that value too
C20_Witness ==
  /\ pc = "idle"
  /\ state_manager
  /\ cycleStart = NoCycle
  /\ fileVal # NoVal
  /\ redisVal = fileVal
  /\ last_sync_time = fileVal

\* the folder is empty
FolderEmpty == \A d \in Docs : modifiedTime[d] = Absent

\* the step is a delivery of a decodable message to process_message
DeliversEvent == runs' = runs + 1 /\ Head(queue) # RawBody

\* C11: an ack is sent only when every file of the event's listing has been
\* attempted; a delivery that ends with a file still unattempted (the worker
\* was interrupted) ends without an ack, the message going back to the queue.
C11_AckAfterAllAttempted ==
  [][/\ (acks' # acks) => next_file' > Len(files')
     /\ (delivery # NoMsg /\ next_file <= Len(files) /\ delivery' = NoMsg)
          => (acks' = acks /\ queue' # <<>> /\ Head(queue') = delivery)]_vars

\* a two-file event acknowledged after a delivery that ended undecided
C11_Witness ==
  /\ acks = 1
  /\ nacks = 0
  /\ runs = 2
  /\ Len(files) = 2
  /\ next_file = 3
  /\ delivery = NoMsg

\* C12: an event over n files of which k fail ends with all n attempted, n-k
\* content uploads, a success count of n-k, and an ack: no nack, not requeued.
C12_PartialFailureStillAcked ==
  [][(wpc = "syncing" /\ acks' = acks + 1)
       => /\ next_file = Len(files) + 1
          /\ event_puts.files = Len(files) - fail_count
          /\ success_count = Len(files) - fail_count
          /\ nacks' = nacks
          /\ queue' = queue
          /\ delivery' = NoMsg]_vars

\* a two-file event acknowledged with one file failed and one uploaded
C12_Witness ==
  /\ acks = 1
  /\ delivery = NoMsg
  /\ Len(files) = 2
  /\ fail_count = 1
  /\ success_count = 1
  /\ event_puts.files = 1

\* C13: a body that cannot be decoded is nacked without requeue: the delivery
\* removes it from the queue for good, nothing is acked or stored.
C13_UndecodableDropped ==
  [][(runs' = runs + 1 /\ Head(queue) = RawBody)
       => /\ nacks' = nacks + 1
          /\ acks' = acks
          /\ queue' = Tail(queue)
          /\ delivery' = NoMsg
          /\ s3' = s3]_vars

\* an undecodable body has been delivered and nacked; the queue is empty
C13_Witness ==
  /\ nacks = 1
  /\ runs = 1
  /\ queue = <<>>
  /\ delivery = NoMsg

C15_RunsGetDistinctKeys == replaced = {}

\* C16: every object under files/ has its record at the sibling metadata/
\* key, and every file counted as synced has had its record written.
C16_EveryObjectHasItsRecord ==
  /\ \A o \in s3 : o.prefix = "files"
        => \E m \in s3 : /\ m.prefix = "metadata"
                         /\ m.ts = o.ts
                         /\ m.name = o.name \o <<".", "j", "s", "o", "n">>
  /\ event_puts.metadata = success_count

\* C29: the endpoint reconnects lazily: a valid notification that finds the
\* connection closed makes one connect call before publishing, and when the
\* broker is reachable it is published and answered 200 on the new connection;
\* a request answered 500 leaves the connection closed, so that the next valid
\* notification reconnects.
C29_LazyReconnect ==
  [][(HandlesRequest /\ ValidNotification(lastReq'))
       => /\ connection = "closed" => connectCalls' = 1
          /\ (connection = "closed" /\ brokerUp)
               => /\ lastResp'.status = 200
                  /\ queue' = Append(queue, EventOf(lastReq', now))
                  /\ connection' = "open"
          /\ lastResp'.status = 500 => connection' = "closed"]_vars

\* a valid notification that reconnected and was published and answered 200
C29_Witness ==
  /\ ValidNotification(lastReq)
  /\ connectCalls = 1 /\ publishCalls = 1
  /\ lastResp.status = 200
  /\ connection = "open"
  /\ Len(queue) = 1 /\ queue[1].event_id = lastReq.channel

\* C30: a request from an origin outside the allow-list is answered 403
\* whatever its token and headers are; nothing is published, no connect or
\* publish call is made and the connection stays as it was.
C30_OriginCheckedFirst ==
  [][(HandlesRequest /\ ~OriginAllowed(lastReq'))
       => /\ lastResp' = [NoResp EXCEPT !.status = 403]
          /\ queue' = queue
          /\ publishCalls' = 0 /\ connectCalls' = 0
          /\ connection' = connection]_vars

\* a request from an unlisted origin with a wrong token and no resource state,
\* answered 403
C30_Witness ==
  /\ lastReq # NoReq
  /\ ~OriginAllowed(lastReq) /\ ~TokenCorrect(lastReq) /\ ~ShapeValid(lastReq)
  /\ lastResp.status = 403

\* C23: a poll cycle that finds modified documents enqueues exactly one event
\* when its request is answered 200, and that event is marked as coming from
\* the poller and carries as trigger_metadata the preview (the first
\* PreviewSize found documents) the poller sent with its request.
C23_PollEventCarriesPreview ==
  [][(pc = "found" /\ pc' = "published")
       => /\ Len(queue') = Len(queue) + 1
          /\ LET event == queue'[Len(queue')]
             IN  /\ event.auto_sync
                 /\ "trigger_metadata" \in DOMAIN event
                 /\ event.trigger_metadata = lastReq'.body.file_details]_vars

C22_FailedCycleIsNoOp ==
  [][/\ (cycleBit' # cycleBit
          /\ \E d \in Docs : /\ modifiedTime[d] # Absent
                              /\ modifiedTime[d] > last_sync_time
                              /\ d \notin modified_files')
          => /\ modified_files' = {}
             /\ pc' = "idle"
             /\ UNCHANGED <<queue, reqBit, last_sync_time, redisVal, fileVal>>
     /\ (pc = "found" /\ triggerFailed')
          => /\ pc' = "idle"
             /\ UNCHANGED <<last_sync_time, redisVal, fileVal>>
             /\ lastResp'.status # 200 => queue' = queue]_vars

\* the poller is idle after a cycle whose query failed (a document modified
\* after the cursor and before the cycle was not found), the cycle before
\* having ended with its request answered 500; the cursor is as it was
C22_Witness ==
  /\ pc = "idle" /\ cycleResult = "no_changes"
  /\ \E d \in Docs : /\ modifiedTime[d] # Absent
                      /\ modifiedTime[d] > cycleStart.working
                      /\ modifiedTime[d] <= cycleStart.at
  /\ lastReq.auto_sync /\ lastResp.status = 500
  /\ last_sync_time = cycleStart.working

\* C24: the persisted cursor (the value in the remote store and the value in
\* the local file) is written only by the step that ends a poll cycle whose
\* event was enqueued.
C24_CursorWrittenOnlyByCycle ==
  [][(redisVal' # redisVal \/ fileVal' # fileVal)
       => (pc = "published" /\ pc' = "idle")]_vars

\* the persisted cursor as the poller would read it now: the value of the
\* remote store when the poller has a state manager and gets one, else the
\* value of the local file (NoVal when nothing is persisted)
StoredCursor ==
  IF state_manager /\ get_last_sync_time # None THEN get_last_sync_time ELSE fileVal

\* C25: the cursor value a poll cycle queries with is the value persisted at
\* the start of that cycle, whenever one is persisted.
C25_CycleUsesPersistedCursor ==
  [][(cycleBit' # cycleBit /\ StoredCursor # NoVal)
       => cycleStart'.working = StoredCursor]_vars

\* C26: the broker never holds more than one message as delivered to the
\* worker and unacknowledged; no delivery starts while process_message works
\* on an event; and the files of an event are synced one after the other, a
\* step of the loop handling exactly the next file of the listing.
C26_OneEventAtATime ==
  [][/\ unacknowledged' <= 1
     /\ (delivery # NoMsg /\ delivery' # NoMsg)
          => (delivery' = delivery /\ runs' = runs /\ files' = files)
     /\ (wpc = "syncing" /\ next_file' # next_file /\ wpc' = "syncing")
          => /\ next_file' = next_file + 1
             /\ event_puts'.files <= event_puts.files + 1]_vars

\* the second file of an event is about to be synced while another message
\* waits in the queue
C26_Witness ==
  /\ wpc = "syncing" /\ delivery # NoMsg
  /\ Len(files) = 2 /\ next_file = 2
  /\ queue # <<>>
  /\ unacknowledged = 1

\* C27: the files the worker attempts for an event are the listing of the
\* folder's contents at processing time, whatever the event is.
C27_AttemptedSetIsFolderContents ==
  [][DeliversEvent
       => files' = ListingSeq({d \in Docs : modifiedTime[d] # Absent})]_vars

\* the callback returns to the consumer loop or the consumer stops
CallbackEnds ==
  \/ wpc = "syncing" /\ wpc' # "syncing"
  \/ runs' = runs + 1 /\ wpc' # "syncing"

\* C28: every run of process_message ends with exactly one decision, an ack
\* or a nack, and the consumer keeps running.
C28_ExactlyOneDecision ==
  [][CallbackEnds
       => /\ acks' + nacks' = acks + nacks + 1
          /\ wpc' = "waiting"]_vars

\* C39: sanitize_filename is idempotent: applied to its own result it returns
\* that result.
C39_SanitizeIdempotent ==
  spc = "done" => sanitize_filename(safe_name) = safe_name

\* a name that loses an accent, a character without ASCII form and its
\* underscores at both ends
C39_Witness ==
  /\ spc = "done"
  /\ filename = <<"_", "E_ACUTE", " ", "CJK">>
  /\ safe_name = <<"e">>

\* C33: a step of the loop writes a file's metadata record only when it has
\* stored that file's content; a step that stores no content (the download or
\* the upload failed) writes nothing at all and counts the file as failed; and
\* every record in the bucket has its content object at the sibling key.
C33_NoRecordWithoutObject ==
  [][(wpc = "syncing" /\ next_file' = next_file + 1)
       => /\ event_puts'.metadata > event_puts.metadata
               => event_puts'.files = event_puts.files + 1
          /\ event_puts'.files = event_puts.files
               => /\ event_puts'.metadata = event_puts.metadata
                  /\ s3' = s3
                  /\ fail_count' = fail_count + 1
                  /\ success_count' = success_count
          /\ \A m \in s3' : m.prefix = "metadata"
               => \E o \in s3' : /\ o.prefix = "files"
                                  /\ o.ts = m.ts
                                  /\ o.name \o <<".", "j", "s", "o", "n">> = m.name]_vars

\* an event over two files has ended: one file failed and left nothing, the
\* other has its object and its record
C33_Witness ==
  /\ wpc = "waiting" /\ acks = 1
  /\ Len(files) = 2 /\ next_file = 3
  /\ fail_count = 1 /\ success_count = 1
  /\ event_puts.files = 1 /\ event_puts.metadata = 1
  /\ Cardinality(s3) = 2

\* C34: an event ends with a no-files marker and an ack without any file
\* attempted only if the watched folder is empty at processing time.
C34_MarkerOnlyForEmptyFolder ==
  [][(DeliversEvent /\ (event_puts'.markers = 1 \/ acks' = acks + 1))
       => FolderEmpty]_vars

\* C35: storing the content of one document of an event never replaces the
\* object of another document: every object under files/ that belongs to
\* another document is still in the bucket after the step.
C35_DistinctDocsDistinctKeys ==
  [][(wpc = "syncing" /\ next_file' = next_file + 1)
       => \A x \in s3 : (x.prefix = "files" /\ x.doc # files[next_file])
            => \E y \in s3' : Key(y) = Key(x) /\ y.doc = x.doc]_vars

\* the last cursor value saved: saves take increasing times, so it is the
\* later of the two stored values (NoVal when nothing was saved)
LastSaved == IF redisVal > fileVal THEN redisVal ELSE fileVal

\* C36: a poller that starts when a cursor has been saved loads a value that
\* is not older than the last value saved.
C36_CursorNeverRegresses ==
  [][(pc = "down" /\ pc' = "idle" /\ LastSaved # NoVal)
       => last_sync_time' >= LastSaved]_vars

\* C37: a migration run that reports success after moving the state file
\* away has stored the file's value in the remote store; a run that finds
\* the file and does not store its value leaves the file in place and
\* reports failure.
C37_MigrationLosesNothing ==
  [][(migration'.bit # migration.bit /\ fileVal # NoVal)
       => /\ (migration'.returned = "true" /\ fileVal' = NoVal)
               => redisVal' = fileVal
          /\ redisVal' # fileVal
               => (fileVal' = fileVal /\ migration'.returned = "false")]_vars

\* time gone since the shutdown began
ShutdownElapsed == now - shutdown_handler.start_time

\* C31: the callbacks started are a prefix of the registered ones, in
\* registration order; a callback is started only while less than the
\* timeout has gone since the shutdown began; after a callback that raised the
\* loop goes on with the next one; the process exits with 0 only when every
\* callback has been called or the timeout has elapsed; and a shutdown that
\* has begun ends with the process exited.
C31_OrderedCallbacksSharedDeadline ==
  /\ [][/\ shutdown_handler'.started =
             SubSeq(shutdown_handler'.shutdown_callbacks, 1,
                    Len(shutdown_handler'.started))
        /\ Len(shutdown_handler'.started) > Len(shutdown_handler.started)
             => ShutdownElapsed < shutdown_timeout
        /\ shutdown_handler'.raised # shutdown_handler.raised
             => /\ shutdown_handler'.exit_status = None
                /\ shutdown_handler'.position = shutdown_handler.position + 1
        /\ (shutdown_handler.exit_status = None /\ shutdown_handler'.exit_status = 0)
             => \/ Len(shutdown_handler.started) = Len(shutdown_handler.shutdown_callbacks)
                \/ ShutdownElapsed >= shutdown_timeout]_vars
  /\ (shutdown_handler.is_shutting_down ~> shutdown_handler.exit_status \in {0, 1})

\* three callbacks registered in an order of their own were all called, the
\* first of them raised, and the process exited with 0
C31_Witness ==
  /\ shutdown_handler.shutdown_callbacks = <<"cb2", "cb1", "cb3">>
  /\ shutdown_handler.started = <<"cb2", "cb1", "cb3">>
  /\ "cb2" \in shutdown_handler.raised
  /\ shutdown_handler.exit_status = 0
  /\ shutdown_handler.signals = 1

\* C32: no callback is started twice; a signal handled during a shutdown
\* ends the process with status 1 and starts no callback; is_shutting_down
\* never goes back to FALSE; and an exited process does nothing more.
C32_CallbacksAtMostOnce ==
  [][/\ \A i, j \in 1..Len(shutdown_handler'.started) :
          i # j => shutdown_handler'.started[i] # shutdown_handler'.started[j]
     /\ (shutdown_handler'.signals # shutdown_handler.signals
          /\ shutdown_handler.is_shutting_down)
          => /\ shutdown_handler'.exit_status = 1
             /\ shutdown_handler'.started = shutdown_handler.started
             /\ ~shutdown_handler'.in_callback
     /\ shutdown_handler.is_shutting_down => shutdown_handler'.is_shutting_down
     /\ shutdown_handler.exit_status # None => shutdown_handler' = shutdown_handler]_vars

\* a second signal arrived while the first of two callbacks was running: the
\* process exited with 1, the second callback was never started
C32_Witness ==
  /\ Len(shutdown_handler.shutdown_callbacks) = 2
  /\ Len(shutdown_handler.started) = 1
  /\ shutdown_handler.signals = 2
  /\ shutdown_handler.exit_status = 1
  /\ shutdown_handler.is_shutting_down

\* the names of the critical tasks
CriticalNames == task_names(critical_tasks)

\* the elements of a sequence
Range(seq) == {seq[i] : i \in 1..Len(seq)}

\* C38: the critical tasks are started in registration order, each when no
\* task is running; a non-critical task is started only when every critical
\* task has been started, has ended and none has failed; a critical task that
\* raises makes run_startup_sequence return False at once, after which no
\* task is started; and it returns False only when a critical task failed.
C38_CriticalFirstSequential ==
  [][/\ LET startedCritical ==
              SelectSeq(startup_optimizer'.started, LAMBDA n : n \in CriticalNames)
        IN  \A i \in 1..Len(startedCritical) :
              /\ i <= Len(critical_tasks)
              /\ startedCritical[i] = critical_tasks[i].name
     /\ Len(startup_optimizer'.started) > Len(startup_optimizer.started)
          => LET name == startup_optimizer'.started[Len(startup_optimizer'.started)]
             IN  IF name \in CriticalNames
                   THEN startup_optimizer.running = {}
                   ELSE /\ CriticalNames \subseteq Range(startup_optimizer.started)
                        /\ startup_optimizer.running \cap CriticalNames = {}
                        /\ startup_optimizer.failed \cap CriticalNames = {}
     /\ (startup_optimizer'.failed \cap CriticalNames
           # startup_optimizer.failed \cap CriticalNames)
          => /\ startup_optimizer'.returned = "false"
             /\ startup_optimizer'.phase = "returned"
     /\ startup_optimizer.phase = "returned"
          => startup_optimizer' = startup_optimizer
     /\ startup_optimizer'.returned = "false"
          => startup_optimizer'.failed \cap CriticalNames # {}]_vars

\* two critical tasks registered around a non-critical one ran first, in
\* their order; the non-critical task failed; the sequence returned True
C38_Witness ==
  /\ startup_optimizer.startup_tasks =
       <<[name |-> "t2", critical |-> TRUE], [name |-> "t1", critical |-> FALSE],
         [name |-> "t3", critical |-> TRUE]>>
  /\ startup_optimizer.started = <<"t2", "t3", "t1">>
  /\ startup_optimizer.failed = {"t1"}
  /\ startup_optimizer.returned = "true"

====
